---- MODULE Spec2Model ----
(***************************************************************************)
(* A model of the profile loader of shadowsocks-gtk-rs                     *)
(* (src/bin/ssgtk/io/profile_loader.rs): the recursive directory walk      *)
(* ProfileFolder::from_path_recurse, the tree queries profile_count,       *)
(* get_profiles and lookup, and ProxyOptions::to_launch_args.              *)
(*                                                                         *)
(* The disk is a finite directory tree `fs`: a sequence of entries, entry  *)
(* 1 being the path handed to from_path_recurse and every other entry      *)
(* lying directly inside the entry named by its `parent` field.  read_dir  *)
(* enumerates the entries of a directory in increasing index order.        *)
(***************************************************************************)
EXTENDS Integers, Sequences, FiniteSets, TLC

VARIABLES
    fs,                        \* the directory tree on disk
    sslocal_on_path,           \* whether which("sslocal") finds a binary
    SSLOCAL_DEFAULT_RESOLVED,  \* the lazy_static cell: "uninit", "ok" or "err"
    which_default_calls,       \* how often which("sslocal") has run
    loaded,                    \* what the last from_path_recurse returned
    trace,                     \* the last load's seen_names and its log of calls
    opts,                      \* the ProxyOptions of the profile being launched
    ret                        \* the last call made on the tree or the options, with its result

\* what the loader reads and writes
loaderVars == <<fs, sslocal_on_path, SSLOCAL_DEFAULT_RESOLVED, which_default_calls,
                loaded, trace>>

vars == <<loaderVars, opts, ret>>

(***************************************************************************)
(* Bounds of the model.                                                    *)
(***************************************************************************)
MaxDirs == 4

\* final path components and display_name overrides are drawn from Names
Names == {"a", "b"}

\* the final component of the path handed to the loader
RootName == "a"

\* the three file names the loader looks for or derives
SSLOCAL_DEFAULT_LOOKUP_NAME == "sslocal"
LOAD_IGNORE_FILE_NAME == ".ss_ignore"
CONFIG_FILE_NAME == "profile.yaml"

NoOverride == "none"

(***************************************************************************)
(* Values of the program.                                                  *)
(***************************************************************************)
\* ProfileLoadError: the variant and what it carries
ProfileLoadError(kind, arg) == [kind |-> kind, arg |-> arg]

\* Option<T>
Some(v) == [tag |-> "Some", val |-> v]
None == [tag |-> "None"]

\* Result<Option<ProfileFolder>, ProfileLoadError>; a call that panics does
\* not return, which Panic stands for
OkSome(node) == [tag |-> "Some", node |-> node]
OkNone == [tag |-> "None"]
Err(e) == [tag |-> "Err", err |-> e]
Panic == [tag |-> "Panic"]

\* ProfileFolder::Profile(Profile { metadata, config }); the parsed document
\* is stood for by the directory it was read from
Profile(display_name, pwd, bin_path, config) ==
    [type |-> "Profile",
     metadata |-> [display_name |-> display_name, pwd |-> pwd, bin_path |-> bin_path],
     config |-> config]

\* ProfileFolder::Group(ProfileGroup { display_name, content })
ProfileGroup(display_name, content) ==
    [type |-> "Group", display_name |-> display_name, content |-> content]

(***************************************************************************)
(* The file system primitives the loader uses.                             *)
(***************************************************************************)
\* the canonical path of entry d: absolute, the components from "/" down
\* (the directory handed to the loader lies in "/")
RECURSIVE CanonicalPath(_, _)
CanonicalPath(f, d) ==
    IF f[d].parent = 0 THEN <<"/", f[d].name>>
    ELSE Append(CanonicalPath(f, f[d].parent), f[d].name)

\* path.read_dir(): the entries of d that are not regular files, in enumeration order
RECURSIVE ReadDirFrom(_, _, _)
ReadDirFrom(f, d, i) ==
    IF i > Len(f) THEN <<>>
    ELSE IF f[i].parent = d THEN <<i>> \o ReadDirFrom(f, d, i + 1)
    ELSE ReadDirFrom(f, d, i + 1)

ReadDir(f, d) == ReadDirFrom(f, d, 1)

\* final components whose bytes are not valid UTF-8
NonUtf8Names == {"\\xFF"}

\* OsStr::to_str(): None unless the bytes are valid UTF-8
ToStr(name) == IF name \in NonUtf8Names THEN None ELSE Some(name)

\* path.join(LOAD_IGNORE_FILE_NAME).is_file()
HasIgnoreFile(e) == e.ignore

\* path.join(CONFIG_FILE_NAME).is_file()
HasConfigFile(e) == e.config # "none"

\* path.read_dir()?.any(|ent| ent.path().is_file())
HasFiles(e) == e.files \/ e.ignore \/ e.config # "none"

(***************************************************************************)
(* ProfileFolder::from_path_recurse_impl.                                  *)
(***************************************************************************)
\* Classify with the config file looked for before the ignore file
ClassifyConfigFirst(e) ==
    IF HasConfigFile(e) THEN "profile"
    ELSE IF HasIgnoreFile(e) THEN "ignored"
    ELSE IF HasFiles(e) THEN "malformed"
    ELSE "group"

\* Classify with the has-files rule applied before the config file is looked for
ClassifyFilesFirst(e) ==
    IF HasIgnoreFile(e) THEN "ignored"
    ELSE IF HasFiles(e) THEN "malformed"
    ELSE IF HasConfigFile(e) THEN "profile"
    ELSE "group"

\* The order of the checks on a directory: the ignore file, then the config
\* file, then any file at all; a directory passing all three is a group.
Classify(e) ==
    IF HasIgnoreFile(e) THEN "ignored"
    ELSE IF HasConfigFile(e) THEN "profile"
    ELSE IF HasFiles(e) THEN "malformed"
    ELSE "group"

\* ResolveDisplayName dropping the override
ResolveDirectoryName(override, display_name) == display_name

\* mo.display_name.unwrap_or(display_name)
ResolveDisplayName(override, display_name) ==
    IF override = NoOverride THEN display_name ELSE override

\* mo.pwd.unwrap_or(path.clone())
ResolvePwd(override, path) ==
    IF override.tag = "None" THEN path ELSE override.val

\* SeenContains finding nothing
NeverSeen(seen_names, display_name) == FALSE

\* seen_names.contains(&display_name)
SeenContains(seen_names, display_name) ==
    \E i \in 1..Len(seen_names) : seen_names[i] = display_name

\* the log of one load: which("sslocal") run during the call for directory d
Which(d, seen_names, outcome) ==
    [ev |-> "which", dir |-> d, seen |-> seen_names, tag |-> outcome, node |-> "",
     err |-> ProfileLoadError("", <<>>)]

\* Forcing the lazy_static: the first dereference runs which("sslocal") and
\* stores its outcome, every later one reads the stored outcome.
ForceDefault(st, d) ==
    IF st.cell = "uninit"
    THEN LET outcome == IF st.on_path THEN "ok" ELSE "err" IN
         [st EXCEPT !.cell = outcome,
                    !.calls = IF @ < 2 THEN @ + 1 ELSE @,
                    !.log = Append(@, Which(d, st.seen_names, outcome))]
    ELSE st

\* mo.bin_path.map(|p| which(p)).unwrap_or(SSLOCAL_DEFAULT_RESOLVED.clone()):
\* "ok" with the resolved binary, or "err"
ResolveBinPath(bin, cell) ==
    IF bin = NoOverride
    THEN (IF cell = "ok" THEN [ok |-> TRUE, path |-> SSLOCAL_DEFAULT_LOOKUP_NAME]
          ELSE [ok |-> FALSE])
    ELSE (IF bin = "good" THEN [ok |-> TRUE, path |-> "override"]
          ELSE [ok |-> FALSE])

\* the config branch: parse, resolve the metadata, build the Profile
LoadProfile(f, d, st) ==
    LET e == f[d] IN
    IF e.config = "unreadable" THEN [res |-> Err(ProfileLoadError("IOError", <<>>)), st |-> st]
    ELSE IF e.config = "bad"
    THEN [res |-> Err(ProfileLoadError("ConfigParseError", <<>>)), st |-> st]
    ELSE
        LET display_name == ResolveDisplayName(e.dn, e.name) IN
        IF SeenContains(st.seen_names, display_name)
        THEN [res |-> Err(ProfileLoadError("NameConflict", display_name)), st |-> st]
        ELSE
            LET st1 == [st EXCEPT !.seen_names = Append(@, display_name)]
                st2 == ForceDefault(st1, d)
                bin == ResolveBinPath(e.bin, st2.cell)
            IN  IF ~bin.ok
                THEN [res |-> Err(ProfileLoadError("BadBinary", <<>>)), st |-> st2]
                ELSE [res |-> OkSome(Profile(display_name, ResolvePwd(e.pwd, CanonicalPath(f, d)),
                                             bin.path, d)),
                      st |-> st2]

\* AbortsGroup logging the error and going on
NeverAborts(r) == FALSE

\* Err(err) => return Err(err): a child's error ends the loop
AbortsGroup(r) == r.tag = "Err"

\* GroupResult without the is_empty check
GroupUnchecked(display_name, subdirs, full_path_str) ==
    OkSome(ProfileGroup(display_name, subdirs))

\* after the loop: an empty group is an error
GroupResult(display_name, subdirs, full_path_str) ==
    IF subdirs = <<>>
    THEN Err(ProfileLoadError("EmptyGroup", full_path_str))
    ELSE OkSome(ProfileGroup(display_name, subdirs))

\* the log of one load: each call of from_path_recurse_impl entered and left
NoErr == ProfileLoadError("", <<>>)
Enter(d, seen_names) ==
    [ev |-> "enter", dir |-> d, seen |-> seen_names, tag |-> "", node |-> "", err |-> NoErr]
Exit(d, seen_names, res) ==
    [ev |-> "exit", dir |-> d, seen |-> seen_names, tag |-> res.tag,
     node |-> IF res.tag = "Some" THEN res.node.type ELSE "",
     err |-> IF res.tag = "Err" THEN res.err ELSE NoErr]

RECURSIVE FromPathRecurseImpl(_, _, _)
RECURSIVE LoadSubdirs(_, _, _, _, _)
RECURSIVE ImplBody(_, _, _)

\* the group loop from entry number i of ents on, subdirs collected so far
LoadSubdirs(f, d, i, subdirs, st) ==
    LET ents == ReadDir(f, d) IN
    IF i > Len(ents)
    THEN [res |-> GroupResult(f[d].name, subdirs, CanonicalPath(f, d)), st |-> st]
    ELSE
        LET r == FromPathRecurseImpl(f, ents[i], st) IN
        IF r.res.tag = "Panic" THEN r
        ELSE IF AbortsGroup(r.res) THEN r
        ELSE IF r.res.tag = "Some"
        THEN LoadSubdirs(f, d, i + 1, Append(subdirs, r.res.node), r.st)
        ELSE LoadSubdirs(f, d, i + 1, subdirs, r.st)

\* the body of the function for the directory entry d
ImplBody(f, d, st) ==
    LET e == f[d] IN
    IF e.kind = "missing"
    THEN [res |-> Err(ProfileLoadError("IOError", <<>>)), st |-> st]
    ELSE IF e.kind # "dir"
    THEN [res |-> Err(ProfileLoadError("NotDirectory", CanonicalPath(f, d))), st |-> st]
    ELSE
        LET class == Classify(e) IN
        IF class = "ignored" THEN [res |-> OkNone, st |-> st]
        ELSE IF ToStr(e.name).tag = "None" THEN [res |-> Panic, st |-> st]
        ELSE IF class = "profile" THEN LoadProfile(f, d, st)
        ELSE IF class = "malformed"
        THEN [res |-> Err(ProfileLoadError("NoConfigFile", CanonicalPath(f, d))), st |-> st]
        ELSE LoadSubdirs(f, d, 1, <<>>, st)

\* one call, noted in the log when it is entered and when it returns
FromPathRecurseImpl(f, d, st) ==
    LET r == ImplBody(f, d, [st EXCEPT !.log = Append(@, Enter(d, st.seen_names))])
    IN  [res |-> r.res,
         st |-> [r.st EXCEPT !.log = Append(@, Exit(d, r.st.seen_names, r.res))]]

\* RootResult without ok_or
RootUnchecked(f, res) == res

\* from_path_recurse: a fresh seen_names, and None at the root is EmptyGroup
RootResult(f, res) ==
    IF res.tag = "None"
    THEN Err(ProfileLoadError("EmptyGroup", CanonicalPath(f, 1)))
    ELSE res

FromPathRecurse(f, on_path, cell, calls) ==
    LET r == FromPathRecurseImpl(f, 1,
                 [seen_names |-> <<>>, log |-> <<>>,
                  on_path |-> on_path, cell |-> cell, calls |-> calls])
    IN  [res |-> RootResult(f, r.res), st |-> r.st]

(***************************************************************************)
(* The queries on a loaded tree.                                           *)
(***************************************************************************)

\* SumCounts counting the children instead of their profiles
CountChildren(content, i) == Len(content) - i + 1

RECURSIVE ProfileCount(_)
RECURSIVE SumCounts(_, _)
\* g.content.iter().map(|pf| pf.profile_count()).sum(), from child i on
SumCounts(content, i) ==
    IF i > Len(content) THEN 0
    ELSE ProfileCount(content[i]) + SumCounts(content, i + 1)

\* ProfileFolder::profile_count
ProfileCount(pf) ==
    IF pf.type = "Profile" THEN 1 ELSE SumCounts(pf.content, 1)

RECURSIVE GetProfiles(_)
RECURSIVE FlatMapProfiles(_, _)
\* g.content.iter().flat_map(|pf| pf.get_profiles()).collect(), from child i on
FlatMapProfiles(content, i) ==
    IF i > Len(content) THEN <<>>
    ELSE GetProfiles(content[i]) \o FlatMapProfiles(content, i + 1)

\* ProfileFolder::get_profiles
GetProfiles(pf) ==
    IF pf.type = "Profile" THEN <<pf>> ELSE FlatMapProfiles(pf.content, 1)

RECURSIVE Lookup(_, _)
RECURSIVE FindMapLookup(_, _, _)
RECURSIVE FindMapLast(_, _, _)
\* FindMapLookup keeping the last match instead of the first
FindMapLast(content, i, name) ==
    IF i > Len(content) THEN None
    ELSE LET rest == FindMapLast(content, i + 1, name) IN
         IF rest.tag = "Some" THEN rest ELSE Lookup(content[i], name)

\* g.content.iter().find_map(|pf| pf.lookup(name)), from child i on
FindMapLookup(content, i, name) ==
    IF i > Len(content) THEN None
    ELSE LET r == Lookup(content[i], name) IN
         IF r.tag = "Some" THEN r ELSE FindMapLookup(content, i + 1, name)

\* ProfileFolder::lookup
Lookup(pf, name) ==
    IF pf.type = "Profile"
    THEN (IF pf.metadata.display_name = name THEN Some(pf) ELSE None)
    ELSE FindMapLookup(pf.content, 1, name)

(***************************************************************************)
(* ProxyOptions::to_launch_args.  A string the code takes apart is a       *)
(* sequence of one-character strings; a string it only passes on is a      *)
(* string.                                                                 *)
(***************************************************************************)
RECURSIVE Str(_)
\* the characters put together
Str(chars) == IF chars = <<>> THEN "" ELSE Head(chars) \o Str(Tail(chars))

DecDigits == <<"0", "1", "2", "3", "4", "5", "6", "7", "8", "9">>
HexDigits == DecDigits \o <<"a", "b", "c", "d", "e", "f">>
HexUpper == <<"A", "B", "C", "D", "E", "F">>

IsDecDigit(c) == \E i \in 1..Len(DecDigits) : DecDigits[i] = c
IsHexDigit(c) ==
    \/ \E i \in 1..Len(HexDigits) : HexDigits[i] = c
    \/ \E i \in 1..Len(HexUpper) : HexUpper[i] = c
DecValue(c) == (CHOOSE i \in 1..Len(DecDigits) : DecDigits[i] = c) - 1

RECURSIVE Dec(_)
\* Display of an unsigned integer
Dec(n) == IF n < 10 THEN DecDigits[n + 1] ELSE Dec(n \div 10) \o DecDigits[(n % 10) + 1]

RECURSIVE Hex(_)
\* {:x} of a segment of an IPv6 address
Hex(n) == IF n < 16 THEN HexDigits[n + 1] ELSE Hex(n \div 16) \o HexDigits[(n % 16) + 1]

\* Display of Ipv4Addr
FmtIpv4(o) == Dec(o[1]) \o "." \o Dec(o[2]) \o "." \o Dec(o[3]) \o "." \o Dec(o[4])

RECURSIVE JoinHex(_, _, _)
\* segments i..j in hex, colons between them
JoinHex(segs, i, j) ==
    IF i > j THEN ""
    ELSE IF i = j THEN Hex(segs[i])
    ELSE Hex(segs[i]) \o ":" \o JoinHex(segs, i + 1, j)

RECURSIVE ZeroRun(_, _)
\* the number of zero segments in a row from segment i on
ZeroRun(segs, i) ==
    IF i > Len(segs) \/ segs[i] # 0 THEN 0 ELSE 1 + ZeroRun(segs, i + 1)

\* Display of Ipv6Addr: an IPv4-mapped address shows its IPv4 part dotted;
\* otherwise the first longest run of two or more zero segments is written ::
FmtIpv6(segs) ==
    IF ZeroRun(segs, 1) = 5 /\ segs[6] = 65535
    THEN "::ffff:" \o FmtIpv4(<<segs[7] \div 256, segs[7] % 256, segs[8] \div 256, segs[8] % 256>>)
    ELSE
        LET longest == CHOOSE n \in 0..8 :
                          /\ \E i \in 1..8 : ZeroRun(segs, i) = n
                          /\ \A i \in 1..8 : ZeroRun(segs, i) <= n
        IN  IF longest < 2 THEN JoinHex(segs, 1, 8)
            ELSE LET at == CHOOSE i \in 1..8 :
                              /\ ZeroRun(segs, i) = longest
                              /\ \A j \in 1..(i - 1) : ZeroRun(segs, j) < longest
                 IN  JoinHex(segs, 1, at - 1) \o "::" \o JoinHex(segs, at + longest, 8)

RECURSIVE Split(_, _)
\* the fields of chars between the separators
Split(chars, sep) ==
    IF \A i \in 1..Len(chars) : chars[i] # sep THEN <<chars>>
    ELSE LET at == CHOOSE i \in 1..Len(chars) :
                      chars[i] = sep /\ \A j \in 1..(i - 1) : chars[j] # sep
         IN  <<SubSeq(chars, 1, at - 1)>> \o Split(SubSeq(chars, at + 1, Len(chars)), sep)

RECURSIVE DecNumber(_)
DecNumber(chars) ==
    IF chars = <<>> THEN 0
    ELSE 10 * DecNumber(SubSeq(chars, 1, Len(chars) - 1)) + DecValue(chars[Len(chars)])

\* an octet of a dotted quad: one to three digits, no leading zero, at most 255
IsOctet(g) ==
    /\ Len(g) \in 1..3
    /\ \A i \in 1..Len(g) : IsDecDigit(g[i])
    /\ (Len(g) > 1 => g[1] # "0")
    /\ DecNumber(g) <= 255

IsDottedQuad(g) ==
    LET parts == Split(g, ".") IN
    Len(parts) = 4 /\ \A i \in 1..4 : IsOctet(parts[i])

\* a group of an IPv6 literal: one to four hex digits
IsHexGroup(g) == Len(g) \in 1..4 /\ \A i \in 1..Len(g) : IsHexDigit(g[i])

\* the groups of a colon-separated run of an IPv6 literal, none for an empty run
GroupsOf(chars) == IF chars = <<>> THEN <<>> ELSE Split(chars, ":")

\* the number of 16-bit groups the fields stand for when they are well formed
\* (hex groups, the last one possibly a dotted quad where allowed), else -1
GroupCount(fields, quad_allowed) ==
    LET n == Len(fields)
        quad == n > 0 /\ quad_allowed /\ IsDottedQuad(fields[n])
    IN  IF \A i \in 1..n : IsHexGroup(fields[i]) \/ (i = n /\ quad)
        THEN n + (IF quad THEN 1 ELSE 0)
        ELSE -1

\* a.parse::<Ipv6Addr>().is_ok(): eight groups, or at most seven around one
\* ::, the last two groups possibly written as a dotted quad
ParsesAsIpv6(chars) ==
    LET gaps == {i \in 1..(Len(chars) - 1) : chars[i] = ":" /\ chars[i + 1] = ":"}
    IN  IF gaps = {} THEN GroupCount(GroupsOf(chars), TRUE) = 8
        ELSE LET at == CHOOSE i \in gaps : \A j \in gaps : i <= j
                 head == GroupCount(GroupsOf(SubSeq(chars, 1, at - 1)), FALSE)
                 tail == GroupCount(GroupsOf(SubSeq(chars, at + 2, Len(chars))), TRUE)
             IN  head >= 0 /\ tail >= 0 /\ head + tail <= 7

\* local_addr rendered: host:port for V4, [host]:port for V6
FmtLocalAddr(a, p) ==
    IF a.v = "V4" THEN FmtIpv4(a.bits) \o ":" \o Dec(p)
    ELSE "[" \o FmtIpv6(a.bits) \o "]:" \o Dec(p)

\* FmtServerAddr never bracketing the host
FmtServerPlain(a, p) == Str(a) \o ":" \o Dec(p)

\* server_addr rendered: [host]:port when the host parses as an IPv6 address
FmtServerAddr(a, p) ==
    IF ParsesAsIpv6(a) THEN "[" \o Str(a) \o "]:" \o Dec(p)
    ELSE Str(a) \o ":" \o Dec(p)

\* ProxyOptions::to_launch_args
ToLaunchArgs(o) ==
    <<"--local-addr", FmtLocalAddr(o.local_addr[1], o.local_addr[2])>>
    \o <<"--server-addr", FmtServerAddr(o.server_addr[1], o.server_addr[2])>>
    \o <<"--password", o.password>>
    \o <<"--encrypt-method", o.encrypt_method>>
    \o (IF o.extra_args.tag = "Some" THEN o.extra_args.val ELSE <<>>)

(***************************************************************************)
(* The disks the loader is run on.                                         *)
(***************************************************************************)
\* A config file is absent ("none"), unparsable ("bad"), or a document
\* ("ok") with its optional display_name, pwd and bin_path.
Doc(config, dn, pwd, bin) == [config |-> config, dn |-> dn, pwd |-> pwd, bin |-> bin]
NoDoc == Doc("none", NoOverride, None, NoOverride)
BadDoc == Doc("bad", NoOverride, None, NoOverride)
PlainDoc == Doc("ok", NoOverride, None, NoOverride)

\* documents that override the display name, or name a binary which() rejects
OverrideDocs ==
    {Doc("ok", n, None, NoOverride) : n \in Names}
    \cup {Doc("ok", NoOverride, None, "bad")}

Entry(parent, name, kind, ignore, files, doc) ==
    [parent |-> parent, name |-> name, kind |-> kind, ignore |-> ignore,
     files |-> files, config |-> doc.config, dn |-> doc.dn, pwd |-> doc.pwd,
     bin |-> doc.bin]

\* an entry that is no directory: a path that does not resolve ("missing"),
\* or one that resolves to something that is neither a directory nor, inside
\* a directory, a regular file ("other")
NonDirs(parent, name) ==
    {Entry(parent, name, k, FALSE, FALSE, NoDoc) : k \in {"missing", "other"}}

\* a directory holds any mix of the ignore file, other regular files and a
\* config file without overrides, or just a config file with an override
Dirs(parent, name) ==
    {Entry(parent, name, "dir", i, fl, doc) :
        i \in BOOLEAN, fl \in BOOLEAN, doc \in {NoDoc, BadDoc, PlainDoc}}
    \cup {Entry(parent, name, "dir", FALSE, FALSE, doc) : doc \in OverrideDocs}

Entries(parent, name) == Dirs(parent, name) \cup NonDirs(parent, name)

\* the names already taken inside directory p
SiblingNames(f, p) == {f[i].name : i \in {j \in 1..Len(f) : f[j].parent = p}}

\* a directory with no regular file in it
IsBare(e) == e.kind = "dir" /\ ~e.ignore /\ ~e.files /\ e.config = "none"

\* p and every directory above it are bare
RECURSIVE BareToRoot(_, _)
BareToRoot(f, p) ==
    IsBare(f[p]) /\ (IF f[p].parent = 0 THEN TRUE ELSE BareToRoot(f, f[p].parent))

\* What may be created inside directory p under the name nm: anything below
\* bare directories, and elsewhere a single plain profile directory.
Creatable(f, p, nm) ==
    IF BareToRoot(f, p) THEN Entries(p, nm)
    ELSE IF SiblingNames(f, p) = {} THEN {Entry(p, nm, "dir", FALSE, FALSE, PlainDoc)}
    ELSE {}

(***************************************************************************)
(* The loader as a state machine.                                          *)
(***************************************************************************)
NotLoaded == [tag |-> "NotLoaded"]
NoTrace == [seen_names |-> <<>>, log |-> <<>>]
NoQuery == [op |-> "none"]
NoOpts == [mode |-> "none"]

\* The process starts with the path it was given on disk, sslocal installed
\* and the lazy_static not yet forced.
Init ==
    /\ \E e \in Entries(0, RootName) : fs = <<e>>
    /\ sslocal_on_path = TRUE
    /\ SSLOCAL_DEFAULT_RESOLVED = "uninit"
    /\ which_default_calls = 0
    /\ loaded = NotLoaded
    /\ trace = NoTrace
    /\ opts = NoOpts
    /\ ret = NoQuery

\* Before the program runs, the disk is populated: one more entry in a
\* directory, numbered in the order read_dir will enumerate them.
AddEntry ==
    /\ loaded = NotLoaded
    /\ Len(fs) < MaxDirs
    /\ \E p \in 1..Len(fs) :
         /\ fs[p].kind = "dir"
         /\ p >= fs[Len(fs)].parent
         /\ \E nm \in Names \ SiblingNames(fs, p) :
              \E e \in Creatable(fs, p, nm) : fs' = Append(fs, e)
    /\ UNCHANGED <<sslocal_on_path, SSLOCAL_DEFAULT_RESOLVED, which_default_calls,
                   loaded, trace, opts, ret>>

\* one call of ProfileFolder::from_path_recurse(root)
CallFromPathRecurse ==
    LET r == FromPathRecurse(fs, sslocal_on_path, SSLOCAL_DEFAULT_RESOLVED, which_default_calls)
    IN  /\ loaded' = r.res
        /\ trace' = [seen_names |-> r.st.seen_names, log |-> r.st.log]
        /\ SSLOCAL_DEFAULT_RESOLVED' = r.st.cell
        /\ which_default_calls' = r.st.calls
        /\ ret' = NoQuery
        /\ UNCHANGED <<fs, sslocal_on_path, opts>>

\* the load at start-up
Load ==
    /\ loaded = NotLoaded
    /\ CallFromPathRecurse

\* the names the tree is asked for: every name a profile can have, and one none has
QueryNames == Names \cup {"zz"}

\* tree.profile_count()
CallProfileCount ==
    /\ loaded.tag = "Some"
    /\ ret' = [op |-> "profile_count", arg |-> "", val |-> ProfileCount(loaded.node)]
    /\ UNCHANGED <<loaderVars, opts>>

\* tree.get_profiles()
CallGetProfiles ==
    /\ loaded.tag = "Some"
    /\ ret' = [op |-> "get_profiles", arg |-> "", val |-> GetProfiles(loaded.node)]
    /\ UNCHANGED <<loaderVars, opts>>

\* tree.lookup(name)
CallLookup ==
    /\ loaded.tag = "Some"
    /\ \E name \in QueryNames :
         ret' = [op |-> "lookup", arg |-> name, val |-> Lookup(loaded.node, name)]
    /\ UNCHANGED <<loaderVars, opts>>

Next == AddEntry \/ Load \/ CallProfileCount \/ CallGetProfiles \/ CallLookup

Spec == Init /\ [][Next]_vars

(***************************************************************************)
(* The loader in a process that lives on: directories named in any bytes,  *)
(* documents that override pwd or bin_path, and a disk and a PATH that     *)
(* change between one load and the next.                                   *)
(***************************************************************************)
MaxMeta == 3

\* final path components: valid UTF-8 or not
MetaNames == Names \cup NonUtf8Names

\* what a document may give as pwd: a relative path, an absolute path with
\* a ".." in it, and the absolute path of the directory handed to the loader
PwdOverrides == {<<".">>, <<"/", RootName, "..", RootName>>, <<"/", RootName>>}

\* documents that override pwd, or name a binary which() finds or rejects
MetaDocs ==
    {Doc("ok", NoOverride, Some(p), NoOverride) : p \in PwdOverrides}
    \cup {Doc("ok", NoOverride, None, b) : b \in {"good", "bad"}}

MetaDirs(parent, name) ==
    {Entry(parent, name, "dir", i, FALSE, doc) : i \in BOOLEAN, doc \in {NoDoc, PlainDoc}}
    \cup {Entry(parent, name, "dir", FALSE, FALSE, doc) : doc \in MetaDocs}

\* The process starts with the directory it was given on disk, sslocal
\* installed or not, and the lazy_static not yet forced.
InitMeta ==
    /\ \E nm \in {RootName} \cup NonUtf8Names : \E e \in MetaDirs(0, nm) : fs = <<e>>
    /\ sslocal_on_path \in BOOLEAN
    /\ SSLOCAL_DEFAULT_RESOLVED = "uninit"
    /\ which_default_calls = 0
    /\ loaded = NotLoaded
    /\ trace = NoTrace
    /\ opts = NoOpts
    /\ ret = NoQuery

\* a directory is created inside a group directory, before or between loads
MakeDir ==
    /\ Len(fs) < MaxMeta
    /\ \E p \in 1..Len(fs) :
         /\ BareToRoot(fs, p)
         /\ p >= fs[Len(fs)].parent
         /\ \E nm \in MetaNames \ SiblingNames(fs, p) :
              \E e \in MetaDirs(p, nm) : fs' = Append(fs, e)
    /\ UNCHANGED <<sslocal_on_path, SSLOCAL_DEFAULT_RESOLVED, which_default_calls,
                   loaded, trace, opts, ret>>

\* a reload in the same process; a load that panicked has ended the process,
\* and no further load follows it
Reload ==
    /\ loaded.tag \in {"Some", "Err"}
    /\ CallFromPathRecurse

\* sslocal is installed into, or removed from, the directories of PATH
ChangePath ==
    /\ sslocal_on_path' = ~sslocal_on_path
    /\ UNCHANGED <<fs, SSLOCAL_DEFAULT_RESOLVED, which_default_calls, loaded, trace,
                   opts, ret>>

NextMeta == MakeDir \/ Load \/ Reload \/ ChangePath

SpecMeta == InitMeta /\ [][NextMeta]_vars

(***************************************************************************)
(* The queries on any tree a caller can build: ProfileGroup's fields are   *)
(* public, so groups may be empty and names may repeat.                    *)
(***************************************************************************)
MaxNodes == 4

\* the directories the profiles of such a tree were read from
Origins == {1, 2}

Leaves ==
    {Profile(n, <<o>>, SSLOCAL_DEFAULT_LOOKUP_NAME, o) : n \in Names, o \in Origins}

RECURSIVE TreesOfSize(_)
RECURSIVE ForestsOfSize(_)
\* the sequences of trees with m nodes in all
ForestsOfSize(m) ==
    IF m = 0 THEN {<<>>}
    ELSE UNION {{<<t>> \o rest : t \in TreesOfSize(k), rest \in ForestsOfSize(m - k)} :
                k \in 1..m}

\* the trees of n nodes
TreesOfSize(n) ==
    (IF n = 1 THEN Leaves ELSE {})
    \cup {ProfileGroup("g", content) : content \in ForestsOfSize(n - 1)}

InitTree ==
    /\ fs = <<>>
    /\ sslocal_on_path = TRUE
    /\ SSLOCAL_DEFAULT_RESOLVED = "uninit"
    /\ which_default_calls = 0
    /\ \E n \in 1..MaxNodes : \E t \in TreesOfSize(n) : loaded = OkSome(t)
    /\ trace = NoTrace
    /\ opts = NoOpts
    /\ ret = NoQuery

NextTree == CallProfileCount \/ CallGetProfiles \/ CallLookup

SpecTree == InitTree /\ [][NextTree]_vars

(***************************************************************************)
(* to_launch_args on the proxy-mode documents a profile can hold.  Each    *)
(* address, host and port is listed with the text it is written as.        *)
(***************************************************************************)
LocalIps ==
    {[ip |-> [v |-> "V4", bits |-> <<127, 0, 0, 1>>], shown |-> "127.0.0.1"],
     [ip |-> [v |-> "V4", bits |-> <<0, 0, 0, 0>>], shown |-> "0.0.0.0"],
     [ip |-> [v |-> "V4", bits |-> <<192, 168, 10, 255>>], shown |-> "192.168.10.255"],
     [ip |-> [v |-> "V6", bits |-> <<0, 0, 0, 0, 0, 0, 0, 1>>], shown |-> "::1"],
     [ip |-> [v |-> "V6", bits |-> <<0, 0, 0, 0, 0, 0, 0, 0>>], shown |-> "::"],
     [ip |-> [v |-> "V6", bits |-> <<65152, 0, 0, 0, 0, 0, 0, 1>>], shown |-> "fe80::1"],
     [ip |-> [v |-> "V6", bits |-> <<8193, 3512, 0, 0, 1, 0, 0, 1>>], shown |-> "2001:db8::1:0:0:1"],
     [ip |-> [v |-> "V6", bits |-> <<8193, 3512, 0, 1, 1, 1, 1, 1>>], shown |-> "2001:db8:0:1:1:1:1:1"],
     [ip |-> [v |-> "V6", bits |-> <<0, 0, 0, 0, 0, 65535, 49320, 257>>], shown |-> "::ffff:192.168.1.1"],
     [ip |-> [v |-> "V6", bits |-> <<1, 2, 3, 4, 5, 6, 7, 8>>], shown |-> "1:2:3:4:5:6:7:8"]}

\* host strings, and whether each is an IPv6 address in text form
Hosts ==
    {[text |-> <<"e", "x", "a", "m", "p", "l", "e", ".", "c", "o", "m">>,
      shown |-> "example.com", v6 |-> FALSE],
     [text |-> <<"1", "2", "7", ".", "0", ".", "0", ".", "1">>, shown |-> "127.0.0.1", v6 |-> FALSE],
     [text |-> <<":", ":", "1">>, shown |-> "::1", v6 |-> TRUE],
     [text |-> <<":", ":">>, shown |-> "::", v6 |-> TRUE],
     [text |-> <<"f", "e", "8", "0", ":", ":", "1">>, shown |-> "fe80::1", v6 |-> TRUE],
     [text |-> <<"F", "E", "8", "0", ":", ":">>, shown |-> "FE80::", v6 |-> TRUE],
     [text |-> <<"1", ":", "2", ":", "3", ":", "4", ":", "5", ":", "6", ":", "7", ":", "8">>,
      shown |-> "1:2:3:4:5:6:7:8", v6 |-> TRUE],
     [text |-> <<":", ":", "f", "f", "f", "f", ":", "1", ".", "2", ".", "3", ".", "4">>,
      shown |-> "::ffff:1.2.3.4", v6 |-> TRUE],
     [text |-> <<"1", ":", "2", ":", "3", ":", "4", ":", "5", ":", "6", ":", "7">>,
      shown |-> "1:2:3:4:5:6:7", v6 |-> FALSE],
     [text |-> <<"1", ":", ":", "2", ":", ":", "3">>, shown |-> "1::2::3", v6 |-> FALSE],
     [text |-> <<"[", ":", ":", "1", "]">>, shown |-> "[::1]", v6 |-> FALSE],
     [text |-> <<":", ":", "1", "%", "l", "o">>, shown |-> "::1%lo", v6 |-> FALSE],
     [text |-> <<"1", "2", "3", "4", "5", ":", ":", "1">>, shown |-> "12345::1", v6 |-> FALSE],
     [text |-> <<":", "1">>, shown |-> ":1", v6 |-> FALSE],
     [text |-> <<"a", "b", "c">>, shown |-> "abc", v6 |-> FALSE],
     [text |-> <<>>, shown |-> "", v6 |-> FALSE]}

Ports ==
    {[n |-> 0, shown |-> "0"], [n |-> 1080, shown |-> "1080"],
     [n |-> 8388, shown |-> "8388"], [n |-> 65535, shown |-> "65535"]}

ExtraArgs == {None, Some(<<>>), Some(<<"-v">>), Some(<<"--fast-open", "-v">>)}

ProxyDocs ==
    {[mode |-> "proxy",
      local_addr |-> <<l.ip, lp.n>>,
      server_addr |-> <<h.text, sp.n>>,
      password |-> "secret",
      encrypt_method |-> m,
      extra_args |-> x] :
        l \in LocalIps, lp \in {q \in Ports : q.n \in {0, 1080}}, h \in Hosts, sp \in Ports,
        m \in {"aes-256-gcm", "none"}, x \in ExtraArgs}

InitArgs ==
    /\ fs = <<>>
    /\ sslocal_on_path = TRUE
    /\ SSLOCAL_DEFAULT_RESOLVED = "uninit"
    /\ which_default_calls = 0
    /\ loaded = NotLoaded
    /\ trace = NoTrace
    /\ opts \in ProxyDocs
    /\ ret = NoQuery

\* self.config.to_launch_args() of a proxy-mode profile
CallToLaunchArgs ==
    /\ opts.mode = "proxy"
    /\ ret' = [op |-> "to_launch_args", arg |-> "", val |-> ToLaunchArgs(opts)]
    /\ UNCHANGED <<loaderVars, opts>>

NextArgs == CallToLaunchArgs

SpecArgs == InitArgs /\ [][NextArgs]_vars

(***************************************************************************)
(* Reading a finished load: the disk, the log and the returned tree.       *)
(***************************************************************************)
Done == loaded.tag # "NotLoaded"
Succeeded == loaded.tag = "Some"
Log == trace.log
Ids == 1..Len(fs)

Entered(d) == \E i \in 1..Len(Log) : Log[i].ev = "enter" /\ Log[i].dir = d
EnterOf(d) == Log[CHOOSE i \in 1..Len(Log) : Log[i].ev = "enter" /\ Log[i].dir = d]
ExitOf(d) == Log[CHOOSE i \in 1..Len(Log) : Log[i].ev = "exit" /\ Log[i].dir = d]
ExitIdx(d) == CHOOSE i \in 1..Len(Log) : Log[i].ev = "exit" /\ Log[i].dir = d

\* the directories strictly above entry d
RECURSIVE Above(_)
Above(d) == IF fs[d].parent = 0 THEN {} ELSE {fs[d].parent} \cup Above(fs[d].parent)

ChildrenOf(d) == {c \in Ids : fs[c].parent = d}

\* the display name the documentation gives a profile directory
NameOnDisk(e) == IF e.dn # NoOverride THEN e.dn ELSE e.name

\* a directory without the ignore file whose config file parses
LiveProfileDir(e) == e.kind = "dir" /\ ~e.ignore /\ e.config = "ok"

DisplayNames(ps) == [i \in 1..Len(ps) |-> ps[i].metadata.display_name]

RECURSIVE NodeCount(_)
RECURSIVE NodeCountFrom(_, _)
NodeCountFrom(content, i) ==
    IF i > Len(content) THEN 0 ELSE NodeCount(content[i]) + NodeCountFrom(content, i + 1)
NodeCount(pf) == IF pf.type = "Profile" THEN 1 ELSE 1 + NodeCountFrom(pf.content, 1)

RECURSIVE GroupsNonEmpty(_)
GroupsNonEmpty(pf) ==
    pf.type = "Group" =>
        /\ Len(pf.content) >= 1
        /\ \A i \in 1..Len(pf.content) : GroupsNonEmpty(pf.content[i])

RECURSIVE Height(_)
RECURSIVE HeightFrom(_, _)
HeightFrom(content, i) ==
    IF i > Len(content) THEN 0
    ELSE LET h == Height(content[i])
             r == HeightFrom(content, i + 1)
         IN  IF h > r THEN h ELSE r
Height(pf) == IF pf.type = "Profile" THEN 0 ELSE 1 + HeightFrom(pf.content, 1)

(***************************************************************************)
(* C1: in every tree a successful from_path_recurse returns, the display   *)
(* names of the profiles get_profiles lists are pairwise distinct.         *)
(***************************************************************************)
C1_NamesDistinct ==
    Succeeded =>
        LET names == DisplayNames(GetProfiles(loaded.node)) IN
        \A i, j \in 1..Len(names) : i # j => names[i] # names[j]

\* a loaded tree with a profile named by its directory and, one level further
\* down, a profile named by its override
C1_Witness ==
    /\ Succeeded
    /\ Len(GetProfiles(loaded.node)) >= 2
    /\ Height(loaded.node) >= 2
    /\ \E d \in Ids : Entered(d) /\ LiveProfileDir(fs[d]) /\ fs[d].dn # NoOverride
    /\ \E d \in Ids : Entered(d) /\ LiveProfileDir(fs[d]) /\ fs[d].dn = NoOverride

\* no directory above d is ignored or is itself a profile directory
Walkable(d) == \A u \in Above(d) : ~fs[u].ignore /\ fs[u].config = "none"

(***************************************************************************)
(* C2, as claimed: whenever two profile directories without the ignore     *)
(* file, lying where the walk goes, resolve to the same display name, the  *)
(* load fails with NameConflict.                                           *)
(***************************************************************************)
C2_AsClaimed ==
    Done =>
        \A d1, d2 \in Ids :
            (/\ d1 # d2
             /\ LiveProfileDir(fs[d1]) /\ Walkable(d1)
             /\ LiveProfileDir(fs[d2]) /\ Walkable(d2)
             /\ NameOnDisk(fs[d1]) = NameOnDisk(fs[d2]))
            => (loaded.tag = "Err" /\ loaded.err.kind = "NameConflict")

(***************************************************************************)
(* C2, amended: whenever two such directories lie where the walk goes (no  *)
(* directory above them is ignored or holds a config file), the load       *)
(* returns an error and no tree: NameConflict carrying the shared name     *)
(* whenever the walk enters both, and otherwise the error it met before    *)
(* the second.                                                             *)
(***************************************************************************)
C2_Amended ==
    Done =>
        \A d1, d2 \in Ids :
            (/\ d1 # d2
             /\ LiveProfileDir(fs[d1]) /\ Walkable(d1)
             /\ LiveProfileDir(fs[d2]) /\ Walkable(d2)
             /\ NameOnDisk(fs[d1]) = NameOnDisk(fs[d2]))
            => /\ loaded.tag = "Err"
               /\ (Entered(d1) /\ Entered(d2))
                    => loaded.err = ProfileLoadError("NameConflict", NameOnDisk(fs[d1]))
               /\ loaded.err.kind # "NameConflict" => ~(Entered(d1) /\ Entered(d2))

\* two profile directories that are not siblings, one named by its override,
\* both entered: NameConflict
C2_Witness ==
    /\ Done
    /\ \E d1, d2 \in Ids :
         /\ d1 # d2
         /\ fs[d1].parent # fs[d2].parent
         /\ LiveProfileDir(fs[d1]) /\ LiveProfileDir(fs[d2])
         /\ fs[d1].dn # NoOverride
         /\ fs[d2].dn = NoOverride
         /\ NameOnDisk(fs[d1]) = NameOnDisk(fs[d2])
         /\ Entered(d1) /\ Entered(d2)
         /\ loaded = Err(ProfileLoadError("NameConflict", fs[d2].name))

(***************************************************************************)
(* C3: a child's error is returned at once by its group and by every group *)
(* around it, unchanged: the log shows the parent leaving with the same    *)
(* error right after the child, and the load returns that error and no     *)
(* tree.                                                                   *)
(***************************************************************************)
C3_ErrorPropagates ==
    Done =>
        \A i \in 1..Len(Log) :
            (Log[i].ev = "exit" /\ Log[i].tag = "Err") =>
                /\ loaded = Err(Log[i].err)
                /\ Log[i].dir # 1 =>
                     /\ i < Len(Log)
                     /\ Log[i + 1].ev = "exit"
                     /\ Log[i + 1].dir = fs[Log[i].dir].parent
                     /\ Log[i + 1].tag = "Err"
                     /\ Log[i + 1].err = Log[i].err

\* an unparsable profile.yaml two levels down, a later sibling of its group
\* never entered, and ConfigParseError returned
C3_Witness ==
    /\ Done
    /\ loaded = Err(ProfileLoadError("ConfigParseError", <<>>))
    /\ \E d \in Ids :
         /\ Entered(d)
         /\ fs[d].config = "bad"
         /\ fs[d].parent # 0 /\ fs[fs[d].parent].parent # 0
         /\ \E c \in ChildrenOf(fs[fs[d].parent].parent) : c > fs[d].parent /\ ~Entered(c)

(***************************************************************************)
(* C4: a directory holding only the ignore file yields no node and no      *)
(* error inside a tree (its call returns Ok(None), and a parent with       *)
(* another child that loaded still returns its group), and EmptyGroup when *)
(* it is the root.                                                         *)
(***************************************************************************)
IgnoreOnly(e) == e.kind = "dir" /\ e.ignore /\ e.config = "none" /\ ~e.files

SomeExits == {i \in 1..Len(Log) : Log[i].ev = "exit" /\ Log[i].tag = "Some"}

C4_IgnoreOnly ==
    Done =>
        /\ IgnoreOnly(fs[1]) =>
             loaded = Err(ProfileLoadError("EmptyGroup", CanonicalPath(fs, 1)))
        /\ \A d \in Ids :
             (d # 1 /\ IgnoreOnly(fs[d]) /\ Entered(d)) =>
                /\ ExitOf(d).tag = "None"
                /\ ExitOf(d).seen = EnterOf(d).seen
                /\ (\A c \in ChildrenOf(fs[d].parent) :
                        Entered(c) /\ ExitOf(c).tag # "Err")
                   /\ (\E c \in ChildrenOf(fs[d].parent) : ExitOf(c).tag = "Some")
                   => ExitOf(fs[d].parent).tag = "Some"
        /\ Succeeded => NodeCount(loaded.node) = Cardinality(SomeExits)

\* a load that succeeded although it entered a directory holding only the ignore file
C4_Witness ==
    /\ Succeeded
    /\ \E d \in Ids : d # 1 /\ IgnoreOnly(fs[d]) /\ Entered(d)

(***************************************************************************)
(* C5: a directory holding both the ignore file and a config file is       *)
(* skipped: its call returns Ok(None) with seen_names untouched, so a      *)
(* NameConflict always has two entered profile directories without the     *)
(* ignore file behind it, and a ConfigParseError an entered directory      *)
(* without the ignore file whose config file does not parse.               *)
(***************************************************************************)
C5_IgnoreBeforeConfig ==
    Done =>
        /\ \A d \in Ids :
             (fs[d].kind = "dir" /\ fs[d].ignore /\ fs[d].config # "none" /\ Entered(d)) =>
                /\ ExitOf(d).tag = "None"
                /\ ExitOf(d).seen = EnterOf(d).seen
                /\ d = 1 => loaded = Err(ProfileLoadError("EmptyGroup", CanonicalPath(fs, 1)))
        /\ (loaded.tag = "Err" /\ loaded.err.kind = "NameConflict") =>
             \E d1, d2 \in Ids :
                /\ d1 # d2 /\ Entered(d1) /\ Entered(d2)
                /\ LiveProfileDir(fs[d1]) /\ LiveProfileDir(fs[d2])
                /\ NameOnDisk(fs[d1]) = loaded.err.arg
                /\ NameOnDisk(fs[d2]) = loaded.err.arg
        /\ (loaded.tag = "Err" /\ loaded.err.kind = "ConfigParseError") =>
             \E d \in Ids : Entered(d) /\ ~fs[d].ignore /\ fs[d].config = "bad"

\* an ignored profile directory, then a profile directory resolving to the
\* same name, and the load succeeds
C5_Witness ==
    /\ Succeeded
    /\ \E d1, d2 \in Ids :
         /\ fs[d1].ignore /\ fs[d1].config = "ok" /\ Entered(d1)
         /\ LiveProfileDir(fs[d2]) /\ Entered(d2)
         /\ ExitIdx(d1) < ExitIdx(d2)
         /\ NameOnDisk(fs[d1]) = NameOnDisk(fs[d2])
         /\ ExitOf(d2).node = "Profile"

(***************************************************************************)
(* C6: every group of a returned tree has a child, and a directory with no *)
(* regular file whose entries were all ignored (or that has none) returns  *)
(* EmptyGroup with its own path.                                           *)
(***************************************************************************)
C6_NoEmptyGroup ==
    Done =>
        /\ Succeeded => GroupsNonEmpty(loaded.node)
        /\ \A d \in Ids :
             (/\ Entered(d)
              /\ IsBare(fs[d])
              /\ \A c \in ChildrenOf(d) : fs[c].kind = "dir" /\ fs[c].ignore)
             => ExitOf(d).err = ProfileLoadError("EmptyGroup", CanonicalPath(fs, d))

\* a group inside the root group whose only entry is ignored: EmptyGroup
C6_Witness ==
    /\ Done
    /\ \E d \in Ids :
         /\ d # 1 /\ Entered(d) /\ IsBare(fs[d])
         /\ ChildrenOf(d) # {}
         /\ \A c \in ChildrenOf(d) : fs[c].kind = "dir" /\ fs[c].ignore
         /\ loaded = Err(ProfileLoadError("EmptyGroup", CanonicalPath(fs, d)))

(***************************************************************************)
(* C7: in a directory without the ignore file the config file decides      *)
(* first: with one, the directory is loaded as a profile (a Profile node,  *)
(* or an error of loading that profile) and nothing inside it is entered;  *)
(* it returns NoConfigFile for its own path exactly when it has no config  *)
(* file but some regular file, and then too nothing inside it is entered.  *)
(***************************************************************************)
ProfileErrors == {"ConfigParseError", "NameConflict", "BadBinary", "IOError"}

C7_ConfigBeforeFiles ==
    Done =>
        \A d \in Ids :
            (Entered(d) /\ fs[d].kind = "dir" /\ ~fs[d].ignore) =>
                /\ fs[d].config # "none" =>
                     /\ \/ ExitOf(d).tag = "Some" /\ ExitOf(d).node = "Profile"
                        \/ ExitOf(d).tag = "Err" /\ ExitOf(d).err.kind \in ProfileErrors
                     /\ \A c \in ChildrenOf(d) : ~Entered(c)
                     /\ (Succeeded /\ ExitOf(d).tag = "Some") =>
                          \E i \in 1..Len(GetProfiles(loaded.node)) :
                              GetProfiles(loaded.node)[i].config = d
                /\ (ExitOf(d).err = ProfileLoadError("NoConfigFile", CanonicalPath(fs, d)))
                     <=> (fs[d].config = "none" /\ fs[d].files)
                /\ (fs[d].config = "none" /\ fs[d].files) =>
                     \A c \in ChildrenOf(d) : ~Entered(c)

\* a profile directory with another file and a subdirectory, loaded as a Profile
C7_Witness ==
    /\ Succeeded
    /\ \E d \in Ids :
         /\ Entered(d) /\ ~fs[d].ignore /\ fs[d].config = "ok" /\ fs[d].files
         /\ ChildrenOf(d) # {}
         /\ ExitOf(d).node = "Profile"

(***************************************************************************)
(* C8: lookup(name) returns the first profile of get_profiles() bearing    *)
(* exactly that display name, and nothing when get_profiles() has none.    *)
(***************************************************************************)
Matches(ps, name) == {i \in 1..Len(ps) : ps[i].metadata.display_name = name}

First(S) == CHOOSE i \in S : \A j \in S : i <= j

C8_LookupFirstMatch ==
    (loaded.tag = "Some" /\ ret.op = "lookup") =>
        LET ps == GetProfiles(loaded.node)
            m == Matches(ps, ret.arg)
        IN  IF m = {} THEN ret.val = None ELSE ret.val = Some(ps[First(m)])

\* two profiles of one name in different groups, and lookup returned the first
C8_Witness ==
    /\ loaded.tag = "Some"
    /\ ret.op = "lookup"
    /\ Height(loaded.node) >= 2
    /\ LET ps == GetProfiles(loaded.node) IN
       /\ Cardinality(Matches(ps, ret.arg)) >= 2
       /\ \E i \in Matches(ps, ret.arg) : ps[i] # ps[First(Matches(ps, ret.arg))]
       /\ ret.val = Some(ps[First(Matches(ps, ret.arg))])

(***************************************************************************)
(* C9: profile_count() is the length of get_profiles().                    *)
(***************************************************************************)
C9_CountIsLength ==
    (loaded.tag = "Some" /\ ret.op = "profile_count") =>
        ret.val = Len(GetProfiles(loaded.node))

\* a tree of nested groups, one of them empty, holding two profiles
C9_Witness ==
    /\ loaded.tag = "Some"
    /\ ret.op = "profile_count"
    /\ ret.val = 2
    /\ Height(loaded.node) >= 2
    /\ ~GroupsNonEmpty(loaded.node)

(***************************************************************************)
(* C10: to_launch_args of a proxy-mode document is --local-addr <local>    *)
(* --server-addr <server> --password <secret> --encrypt-method <method>    *)
(* and then the extra arguments in order, <local> being host:port for an   *)
(* IPv4 address and [host]:port for an IPv6 one, <server> being            *)
(* [host]:port for a host that is an IPv6 literal and host:port otherwise. *)
(***************************************************************************)
ShownIp(ip) == (CHOOSE l \in LocalIps : l.ip = ip).shown
ShownPort(n) == (CHOOSE q \in Ports : q.n = n).shown
HostOf(text) == CHOOSE h \in Hosts : h.text = text

ExpectedLocal(o) ==
    IF o.local_addr[1].v = "V6"
    THEN "[" \o ShownIp(o.local_addr[1]) \o "]:" \o ShownPort(o.local_addr[2])
    ELSE ShownIp(o.local_addr[1]) \o ":" \o ShownPort(o.local_addr[2])

ExpectedServer(o) ==
    IF HostOf(o.server_addr[1]).v6
    THEN "[" \o HostOf(o.server_addr[1]).shown \o "]:" \o ShownPort(o.server_addr[2])
    ELSE HostOf(o.server_addr[1]).shown \o ":" \o ShownPort(o.server_addr[2])

C10_ProxyArgs ==
    ret.op = "to_launch_args" =>
        LET a == ret.val
            extra == IF opts.extra_args.tag = "Some" THEN opts.extra_args.val ELSE <<>>
        IN  /\ Len(a) = 8 + Len(extra)
            /\ a[1] = "--local-addr" /\ a[2] = ExpectedLocal(opts)
            /\ a[3] = "--server-addr" /\ a[4] = ExpectedServer(opts)
            /\ a[5] = "--password" /\ a[6] = opts.password
            /\ a[7] = "--encrypt-method" /\ a[8] = opts.encrypt_method
            /\ \A i \in 1..Len(extra) : a[8 + i] = extra[i]

\* local 127.0.0.1:1080, server_addr ["::1", 8388] and two extra arguments
C10_Witness ==
    /\ ret.op = "to_launch_args"
    /\ ret.val = <<"--local-addr", "127.0.0.1:1080", "--server-addr", "[::1]:8388",
                   "--password", "secret", "--encrypt-method", "aes-256-gcm",
                   "--fast-open", "-v">>

(***************************************************************************)
(* C11: in every Profile of a successful load, metadata.pwd is an          *)
(* absolute, canonicalized path.                                           *)
(***************************************************************************)
\* the profiles of the tree the last load returned
LoadedProfiles == IF Succeeded THEN GetProfiles(loaded.node) ELSE <<>>

\* what canonicalize() returns: absolute, and free of "." and ".."
IsAbsolute(p) == Len(p) > 0 /\ p[1] = "/"
IsCanonical(p) == IsAbsolute(p) /\ \A i \in 2..Len(p) : p[i] \notin {".", ".."}

\* a profile without a pwd override works in its own directory's canonical path
C11_DefaultPwd ==
    \A i \in 1..Len(LoadedProfiles) :
        LET pr == LoadedProfiles[i] IN
        fs[pr.config].pwd = None
            => /\ pr.metadata.pwd = CanonicalPath(fs, pr.config)
               /\ IsCanonical(pr.metadata.pwd)

\* a profile with a pwd override works in an absolute, canonicalized path
C11_OverridePwd ==
    \A i \in 1..Len(LoadedProfiles) :
        LET pr == LoadedProfiles[i] IN
        fs[pr.config].pwd # None => IsCanonical(pr.metadata.pwd)

\* C11: the working directory of every loaded Profile is absolute and
\* canonicalized, both when it defaults to the profile's directory and when
\* the document overrides it.
C11_AsClaimed == C11_DefaultPwd /\ C11_OverridePwd

\* a load returned a profile working where its document says, next to one
\* working in its own directory
C11_Witness ==
    \E i \in 1..Len(LoadedProfiles) :
        /\ fs[LoadedProfiles[i].config].pwd # None
        /\ LoadedProfiles[i].metadata.pwd = fs[LoadedProfiles[i].config].pwd.val
        /\ \E j \in 1..Len(LoadedProfiles) : fs[LoadedProfiles[j].config].pwd = None

(***************************************************************************)
(* C12: a directory whose final component is not valid UTF-8 makes the     *)
(* load return IOError; the loader neither panics nor builds a node.       *)
(***************************************************************************)
\* the directories the last load walked into whose name is not valid UTF-8
\* and which do not hold the ignore file
NonUtf8Entered ==
    {d \in Ids : Entered(d) /\ fs[d].name \in NonUtf8Names /\ ~fs[d].ignore}

\* C12: once the walk is in a directory whose final path component is not
\* valid UTF-8, from_path_recurse returns the IOError value: it does not
\* panic, and the call for that directory returns no node.
C12_AsClaimed ==
    \A d \in NonUtf8Entered :
        /\ loaded.tag # "Panic"
        /\ ExitOf(d).tag # "Some"
        /\ loaded.tag = "Err" /\ loaded.err.kind = "IOError"

\* below a directory with a sound name, after a sibling that loaded, the
\* walk entered a directory named in invalid UTF-8, and the load panicked
C12_Witness ==
    \E d \in NonUtf8Entered :
        /\ fs[d].parent # 0
        /\ \E c \in ChildrenOf(fs[d].parent) :
             c < d /\ Entered(c) /\ ExitOf(c).tag = "Some"
        /\ loaded = Panic

(***************************************************************************)
(* C13: which("sslocal") runs at most once in a process, its stored        *)
(* outcome is what every profile without a bin_path override gets, and     *)
(* profiles with a bin_path override never consult it.                     *)
(***************************************************************************)
\* the places in the last load's log where which("sslocal") ran
WhichEvents == {i \in 1..Len(Log) : Log[i].ev = "which"}

\* the profile directories whose call in the last load got as far as
\* resolving bin_path: parsed, named in valid UTF-8, the name not yet seen
Resolving ==
    {d \in Ids : /\ Entered(d)
                 /\ LiveProfileDir(fs[d])
                 /\ fs[d].name \notin NonUtf8Names
                 /\ ~SeenContains(EnterOf(d).seen, NameOnDisk(fs[d]))}

\* the search ran at most once, and the cell holds what it found then
C13_AtMostOnce ==
    /\ which_default_calls <= 1
    /\ Cardinality(WhichEvents) <= which_default_calls
    /\ (SSLOCAL_DEFAULT_RESOLVED = "uninit") <=> (which_default_calls = 0)
    /\ \A i \in WhichEvents : Log[i].tag = SSLOCAL_DEFAULT_RESOLVED

\* every profile without a bin_path override gets the stored outcome
C13_CachedOutcome ==
    /\ \A d \in Resolving :
         fs[d].bin = NoOverride
            => /\ SSLOCAL_DEFAULT_RESOLVED \in {"ok", "err"}
               /\ SSLOCAL_DEFAULT_RESOLVED = "ok" => ExitOf(d).tag = "Some"
               /\ SSLOCAL_DEFAULT_RESOLVED = "err"
                    => ExitOf(d).tag = "Err" /\ ExitOf(d).err.kind = "BadBinary"
    /\ \A i \in 1..Len(LoadedProfiles) :
         fs[LoadedProfiles[i].config].bin = NoOverride
            => LoadedProfiles[i].metadata.bin_path = SSLOCAL_DEFAULT_LOOKUP_NAME

\* what a profile with a bin_path override gets depends on its own binary only
C13_OverrideOutcome ==
    \A d \in Resolving :
        /\ fs[d].bin = "good" => ExitOf(d).tag = "Some"
        /\ fs[d].bin = "bad" => ExitOf(d).tag = "Err" /\ ExitOf(d).err.kind = "BadBinary"

\* the call for a profile with a bin_path override never runs the search
C13_OverrideNoLookup ==
    \A i \in WhichEvents : fs[Log[i].dir].bin = NoOverride

\* C13: over all profiles and all loads of a process the search for sslocal
\* runs at most once, every profile without a bin_path override gets its
\* stored outcome (the resolved path, or BadBinary), and profiles with a
\* bin_path override never consult it.
C13_AsClaimed ==
    /\ C13_AtMostOnce
    /\ C13_CachedOutcome
    /\ C13_OverrideOutcome
    /\ C13_OverrideNoLookup

\* sslocal was installed after the search had failed: a reload ran no search
\* and still gave BadBinary to a profile without a bin_path override, after
\* a sibling with its own binary had loaded
C13_Witness ==
    /\ sslocal_on_path
    /\ SSLOCAL_DEFAULT_RESOLVED = "err"
    /\ WhichEvents = {}
    /\ \E d \in Resolving :
         /\ fs[d].bin = NoOverride
         /\ loaded.tag = "Err" /\ loaded.err.kind = "BadBinary"
         /\ \E c \in Resolving : c < d /\ fs[c].bin = "good"

====
